---- MODULE Spec2Model ----
(***************************************************************************)
(* Resource broker: Reservation state machine, capacity accounting on      *)
(* ClusterAdvertisements and the freshness reconciler.                     *)
(*                                                                         *)
(* The substrate (object store) gives optimistic concurrency: every copy   *)
(* a reconciler holds carries the resourceVersion it was read at, and a    *)
(* write is accepted only while that version is still the stored one.      *)
(* A copy's field "cur" is TRUE exactly while its resourceVersion equals   *)
(* the stored one; every committed write by somebody else clears it.       *)
(***************************************************************************)
EXTENDS Integers, FiniteSets, Sequences, TLC

\* ------------------------------------------------------------------ bounds
\* transient substrate errors (timeout, network, broker restart) injected
MaxFaults == 1
\* agent publications that change a cluster's allocated resources
MaxPublish == 1

\* minutes of wall-clock time followed in the timed scenario
MaxTime == 7

\* ------------------------------------------------------- program constants
\* retry.DefaultRetry: attempts of the acquisition closure on version conflict
RetrySteps == 5
\* the staleness threshold used when StalenessThreshold is zero, in minutes
DefaultStalenessThreshold == 2
\* RequeueAfter of the advertisement reconcile, in minutes
AdvertisementRequeueAfter == 5
\* status.reservedAt / status.expiresAt when nil
NoTime == -1

\* -------------------------------------------------------------- quantities
\* resource.Quantity pairs (CPU in cores, memory in Gi); exact integers
Q(c, m) == [cpu |-> c, mem |-> m]
ZeroQ == Q(0, 0)
QAdd(a, b) == Q(a.cpu + b.cpu, a.mem + b.mem)
QSub(a, b) == Q(a.cpu - b.cpu, a.mem - b.mem)

\* ---------------------------------------------------------------- phases
PhaseNew == ""
ReservationPhasePending == "Pending"
ReservationPhaseReserved == "Reserved"
ReservationPhaseActive == "Active"
ReservationPhaseFailed == "Failed"
ReservationPhaseReleased == "Released"
Terminal == {ReservationPhaseFailed, ReservationPhaseReleased}
Holding == {ReservationPhaseReserved, ReservationPhaseActive}

\* outcomes recorded in status.message
MsgNone == "none"
MsgInvalid == "InvalidSpec"
MsgNoSuitable == "NoSuitableCluster"
MsgNotFound == "TargetClusterNotFound"
MsgInsufficient == "InsufficientResources"
MsgLocked == "ResourcesLocked"
MsgActivated == "RequesterActivated"
MsgReleased == "Released"

\* ------------------------------------------------- internal/resource package
\* Available = Allocatable - Allocated - Reserved, a nil Reserved counts as 0;
\* Quantity.Sub does not saturate
CalculateAvailable(allocatable, allocated, hasReserved, reserved) ==
    IF hasReserved THEN allocatable - allocated - reserved
    ELSE allocatable - allocated

UpdateAvailableResourcesNoReserved(res) ==
    [res EXCEPT !.available =
        Q(CalculateAvailable(res.allocatable.cpu, res.allocated.cpu, FALSE, 0),
          CalculateAvailable(res.allocatable.mem, res.allocated.mem, FALSE, 0))]

UpdateAvailableResources(res) ==
    [res EXCEPT !.available =
        Q(CalculateAvailable(res.allocatable.cpu, res.allocated.cpu,
                             res.hasReserved, res.reserved.cpu),
          CalculateAvailable(res.allocatable.mem, res.allocated.mem,
                             res.hasReserved, res.reserved.mem))]

CanReserveAlways(res, req) == TRUE

\* compares the STORED available field with the request
CanReserve(res, req) ==
    /\ ~(res.available.cpu < req.cpu)
    /\ ~(res.available.mem < req.mem)

AddReservation(res, req) ==
    LET init == IF res.hasReserved THEN res
                ELSE [res EXCEPT !.hasReserved = TRUE, !.reserved = ZeroQ]
    IN  UpdateAvailableResources([init EXCEPT !.reserved = QAdd(init.reserved, req)])

\* callers check RemoveReservationFails first: a nil Reserved is an error
RemoveReservationFails(res) == ~res.hasReserved

RemoveReservation(res, req) ==
    UpdateAvailableResources([res EXCEPT !.reserved = QSub(res.reserved, req)])


\* ------------------------------------------------------ internal/broker package
\* calculateScore as an exact fraction ScoreNum / ScoreDen of
\*   (1 - cpuUtil*0.5) + (1 - memUtil*0.5), times 0.9 when cost is present,
\*   plus priority * 0.01,   util = 1 - (available - requested) / allocatable
ScoreDen(item) == 100 * item.res.allocatable.cpu * item.res.allocatable.mem

ScoreNum(item, req, priority) ==
    LET ac == item.res.allocatable.cpu
        am == item.res.allocatable.mem
        base == 2 * ac * am + (item.res.available.cpu - req.cpu) * am
                            + (item.res.available.mem - req.mem) * ac
    IN  base * (IF item.hasCost THEN 45 ELSE 50) + priority * ac * am

hasEnoughResourcesAlways(item, req) == TRUE

hasEnoughResources(item, req) ==
    /\ item.res.available.cpu >= req.cpu
    /\ item.res.available.mem >= req.mem

RECURSIVE SelectLoopNoActiveFilter(_, _, _, _, _, _, _, _)
SelectLoopNoActiveFilter(items, i, requesterID, req, priority, best, bn, bd) ==
    IF i > Len(items) THEN best
    ELSE LET it == items[i]
             skip == \/ it.clusterID = requesterID
                     \/ ~hasEnoughResources(it, req)
             n == ScoreNum(it, req, priority)
             d == ScoreDen(it)
         IN  IF ~skip /\ n * bd > bn * d
             THEN SelectLoopNoActiveFilter(items, i + 1, requesterID, req, priority, i, n, d)
             ELSE SelectLoopNoActiveFilter(items, i + 1, requesterID, req, priority,
                                           best, bn, bd)

RECURSIVE SelectLoopLastWins(_, _, _, _, _, _, _, _)
SelectLoopLastWins(items, i, requesterID, req, priority, best, bn, bd) ==
    IF i > Len(items) THEN best
    ELSE LET it == items[i]
             skip == \/ it.clusterID = requesterID
                     \/ ~it.active
                     \/ ~hasEnoughResources(it, req)
             n == ScoreNum(it, req, priority)
             d == ScoreDen(it)
         IN  IF ~skip /\ n * bd >= bn * d
             THEN SelectLoopLastWins(items, i + 1, requesterID, req, priority, i, n, d)
             ELSE SelectLoopLastWins(items, i + 1, requesterID, req, priority, best, bn, bd)

\* the loop of SelectBestCluster over items[i..], carrying bestCluster (0 = nil)
\* and bestScore = bn / bd (initially -1)
RECURSIVE SelectLoop(_, _, _, _, _, _, _, _)
SelectLoop(items, i, requesterID, req, priority, best, bn, bd) ==
    IF i > Len(items) THEN best
    ELSE LET it == items[i]
             skip == \/ it.clusterID = requesterID
                     \/ ~it.active
                     \/ ~hasEnoughResources(it, req)
             n == ScoreNum(it, req, priority)
             d == ScoreDen(it)
         IN  IF ~skip /\ n * bd > bn * d
             THEN SelectLoop(items, i + 1, requesterID, req, priority, i, n, d)
             ELSE SelectLoop(items, i + 1, requesterID, req, priority, best, bn, bd)

\* index of the chosen item, 0 when the engine returns an error
SelectBestCluster(items, requesterID, req, priority) ==
    IF Len(items) = 0 THEN 0
    ELSE SelectLoop(items, 1, requesterID, req, priority, 0, -1, 1)

\* ------------------------------------------------------------------ universe
Clusters == {"A", "B"}
\* the order in which List returns the advertisements
ClusterOrder == <<"A", "B">>
Reservations == {"r1", "r2"}
NoCluster == ""

InitialResources ==
    [A |-> [allocatable |-> Q(10, 20), allocated |-> ZeroQ, hasReserved |-> FALSE,
            reserved |-> ZeroQ, available |-> Q(10, 20)],
     B |-> [allocatable |-> Q(4, 8), allocated |-> ZeroQ, hasReserved |-> FALSE,
            reserved |-> ZeroQ, available |-> Q(4, 8)]]

\* what an agent may report as allocated
AllocatedChoices == {ZeroQ, Q(8, 8)}


\* --------------------------------------------------------------------- state
VARIABLES
    adv,        \* stored ClusterAdvertisements: [exists, res, active, phase, hasCost,
                \*   cpuCost, gpu (available GPUs)]
    now,        \* wall-clock time in minutes
    age,        \* per cluster: now - spec.timestamp in minutes
    threshold,  \* StalenessThreshold of the advertisement reconciler, 0 = not set
    due,        \* per cluster: minutes until the requeue of its last reconcile fires
    rsv,        \* stored Reservations
    pastExpiry, \* per reservation: now is after status.expiresAt
    w,          \* Reservation reconciler, one in-flight reconcile per key
    aw,         \* ClusterAdvertisement reconciler, one per key
    inc,        \* per reservation: committed AddReservation writes
    dec,        \* per reservation: committed RemoveReservation writes
    brokerWrote,\* per cluster: the last spec write was the broker's
    faults,     \* transient errors injected so far
    publishes   \* agent publications so far

vars == <<adv, now, age, threshold, due, rsv, pastExpiry, w, aw, inc, dec, brokerWrote,
          faults, publishes>>

\* the clock and what is measured against it
clock == <<now, age, threshold, due>>

NoObj ==
    [exists |-> FALSE, finalizer |-> FALSE, deleting |-> FALSE, requesterID |-> "",
     req |-> ZeroQ, hasDuration |-> FALSE, target |-> NoCluster, phase |-> PhaseNew,
     msg |-> MsgNone, expiresSet |-> FALSE, condActive |-> FALSE, condReleased |-> FALSE,
     priority |-> 0, gpu |-> 0, duration |-> 0, msgReq |-> ZeroQ,
     reservedAt |-> NoTime, expiresAt |-> NoTime]

NoRes ==
    [allocatable |-> ZeroQ, allocated |-> ZeroQ, hasReserved |-> FALSE,
     reserved |-> ZeroQ, available |-> ZeroQ]

IdleWorker ==
    [pc |-> "idle", obj |-> NoObj, cur |-> FALSE, cl |-> NoRes, clCur |-> FALSE,
     attempts |-> 0, next |-> PhaseNew, msg |-> MsgNone, seen |-> <<>>]

IdleAdvWorker == [pc |-> "idle", cl |-> NoRes, cur |-> FALSE]

\* gpu is 0 when absent; duration (seconds) is read only when hasDuration
NewReservation(req, dur, target) ==
    [NoObj EXCEPT !.exists = TRUE, !.requesterID = "x", !.req = req,
                  !.hasDuration = dur, !.duration = IF dur THEN 1 ELSE 0,
                  !.target = target]

\* nothing is in flight and the advertisements have just been published
InitRest ==
    /\ now = 0
    /\ age = [c \in Clusters |-> 0]
    /\ due = [c \in Clusters |-> 0]
    /\ pastExpiry = [r \in Reservations |-> FALSE]
    /\ w = [r \in Reservations |-> IdleWorker]
    /\ aw = [c \in Clusters |-> IdleAdvWorker]
    /\ inc = [r \in Reservations |-> 0]
    /\ dec = [r \in Reservations |-> 0]
    /\ brokerWrote = [c \in Clusters |-> FALSE]
    /\ faults = 0
    /\ publishes = 0

\* present: the clusters whose agent has published an advertisement, none of
\* them with GPUs; reconciled: the freshness reconciler has already marked them
\* active; StalenessThreshold is left unset
InitCommon(present, reconciled) ==
    /\ adv = [c \in Clusters |->
                IF c \in present
                THEN [exists |-> TRUE, res |-> InitialResources[c], active |-> reconciled,
                      phase |-> IF reconciled THEN "Active" ELSE "",
                      hasCost |-> FALSE, cpuCost |-> 0, gpu |-> 0]
                ELSE [exists |-> FALSE, res |-> NoRes, active |-> FALSE, phase |-> "",
                      hasCost |-> FALSE, cpuCost |-> 0, gpu |-> 0]]
    /\ threshold = 0
    /\ InitRest

\* cluster A is advertised, B is not; one reservation of 4 CPU / 8 Gi (A has room
\* for two of them, not three), with or without a duration, that names its target
\* (A, or B that nobody advertises) or leaves the choice to the broker
Init ==
    /\ InitCommon({"A"}, FALSE)
    /\ \E d1 \in BOOLEAN, t1 \in {NoCluster, "A", "B"} :
         rsv = [r \in Reservations |->
                  IF r = "r1" THEN NewReservation(Q(4, 8), d1, t1) ELSE NoObj]


\* ------------------------------------------------------ substrate helpers
\* the items List returns, in list order
AdvList ==
    LET ids == SelectSeq(ClusterOrder, LAMBDA c : adv[c].exists)
    IN  [i \in 1..Len(ids) |->
            [name |-> ids[i], clusterID |-> ids[i], res |-> adv[ids[i]].res,
             active |-> adv[ids[i]].active, hasCost |-> adv[ids[i]].hasCost,
             cpuCost |-> adv[ids[i]].cpuCost]]

\* the scan of the listed items for spec.clusterID = id, as the acquisition and the
\* release do it: the name of the first match, "" when there is none
findClusterByIDFirstListed(id) ==
    IF Len(AdvList) = 0 THEN NoCluster ELSE AdvList[1].name

findClusterByID(id) ==
    LET hits == SelectSeq(AdvList, LAMBDA it : it.clusterID = id)
    IN  IF Len(hits) = 0 THEN NoCluster ELSE hits[1].name

ClusterFound(id) == findClusterByID(id) # NoCluster

\* an engine that keeps its last pick while a selection of another reconcile is
\* still outstanding
DecisionEngineSelectSticky(items, o) ==
    LET fresh == SelectBestCluster(items, o.requesterID, o.req, o.priority)
    IN  IF fresh # 0 /\ \E r \in Reservations : w[r].pc = "bind"
        THEN Len(items) ELSE fresh

\* the call of the decision engine by handlePendingReservation
DecisionEngineSelect(items, o) ==
    SelectBestCluster(items, o.requesterID, o.req, o.priority)

\* a write is accepted only when the copy's resourceVersion is the stored one
VersionMatchesAlways(cur) == TRUE

VersionMatches(cur) == cur

\* reservation workers after a committed write to advertisement c by `me`
\* (me = "" for a writer that is no reservation worker): other copies go stale
WorkersAfterAdvWrite(c, me, mine) ==
    [r \in Reservations |->
        IF r = me THEN mine
        ELSE IF w[r].obj.target = c THEN [w[r] EXCEPT !.clCur = FALSE]
        ELSE w[r]]

AdvWorkersAfterAdvWrite(c, me, mine) ==
    [d \in Clusters |->
        IF d = me THEN mine
        ELSE IF d = c THEN [aw[d] EXCEPT !.cur = FALSE]
        ELSE aw[d]]

\* ------------------------------------------------ reservation_controller.go
validateReservationSpec(o) ==
    /\ o.requesterID # ""
    /\ o.req.cpu > 0
    /\ o.req.mem > 0

reservationHasCondition(o, type) ==
    IF type = "RequesterActive" THEN o.condActive ELSE o.condReleased

\* a Reserved phase handler that looks at the expiry before the condition
AfterFinalizerExpiryFirst(o, past) ==
    IF ~validateReservationSpec(o)
    THEN [pc |-> "status", next |-> ReservationPhaseFailed, msg |-> MsgInvalid]
    ELSE IF o.phase \in {PhaseNew, ReservationPhasePending}
    THEN IF o.target # NoCluster
         THEN [pc |-> "lockRead", next |-> PhaseNew, msg |-> MsgNone]
         ELSE [pc |-> "select", next |-> PhaseNew, msg |-> MsgNone]
    ELSE IF o.phase = ReservationPhaseReserved
    THEN IF o.expiresSet /\ past
         THEN [pc |-> "relList", next |-> ReservationPhaseReleased, msg |-> MsgReleased]
         ELSE IF reservationHasCondition(o, "RequesterActive")
         THEN [pc |-> "status", next |-> ReservationPhaseActive, msg |-> MsgActivated]
         ELSE [pc |-> "idle", next |-> PhaseNew, msg |-> MsgNone]
    ELSE IF o.phase = ReservationPhaseActive
    THEN IF reservationHasCondition(o, "RequesterReleased") \/ (o.expiresSet /\ past)
         THEN [pc |-> "relList", next |-> ReservationPhaseReleased, msg |-> MsgReleased]
         ELSE [pc |-> "idle", next |-> PhaseNew, msg |-> MsgNone]
    ELSE [pc |-> "idle", next |-> PhaseNew, msg |-> MsgNone]

\* Reconcile from the validation on: the next substrate call of this reconcile
\* for the object o as the reconciler holds it; past = time.Now().After(expiresAt)
AfterFinalizer(o, past) ==
    IF ~validateReservationSpec(o)
    THEN [pc |-> "status", next |-> ReservationPhaseFailed, msg |-> MsgInvalid]
    ELSE IF o.phase \in {PhaseNew, ReservationPhasePending}
    THEN IF o.target # NoCluster
         THEN [pc |-> "lockRead", next |-> PhaseNew, msg |-> MsgNone]
         ELSE [pc |-> "select", next |-> PhaseNew, msg |-> MsgNone]
    ELSE IF o.phase = ReservationPhaseReserved
    THEN IF reservationHasCondition(o, "RequesterActive")
         THEN [pc |-> "status", next |-> ReservationPhaseActive, msg |-> MsgActivated]
         ELSE IF o.expiresSet /\ past
         THEN [pc |-> "relList", next |-> ReservationPhaseReleased, msg |-> MsgReleased]
         ELSE [pc |-> "idle", next |-> PhaseNew, msg |-> MsgNone]
    ELSE IF o.phase = ReservationPhaseActive
    THEN IF reservationHasCondition(o, "RequesterReleased") \/ (o.expiresSet /\ past)
         THEN [pc |-> "relList", next |-> ReservationPhaseReleased, msg |-> MsgReleased]
         ELSE [pc |-> "idle", next |-> PhaseNew, msg |-> MsgNone]
    ELSE [pc |-> "idle", next |-> PhaseNew, msg |-> MsgNone]

\* a release that acts whatever the phase
ReleaseActsAlways(o) == TRUE

\* releaseResources acts only in Reserved or Active
ReleaseActs(o) == o.phase \in Holding

\* a Reconcile that handles the phases without adding the finalizer first
AfterGetFinalizerSkipped(o, past) ==
    IF o.deleting
    THEN IF o.finalizer
         THEN IF ReleaseActs(o)
              THEN [pc |-> "relList", next |-> PhaseNew, msg |-> MsgNone]
              ELSE [pc |-> "rmFin", next |-> PhaseNew, msg |-> MsgNone]
         ELSE [pc |-> "idle", next |-> PhaseNew, msg |-> MsgNone]
    ELSE AfterFinalizer(o, past)

\* Reconcile from the fetch to its first substrate call
AfterGet(o, past) ==
    IF o.deleting
    THEN IF o.finalizer
         THEN IF ReleaseActs(o)
              THEN [pc |-> "relList", next |-> PhaseNew, msg |-> MsgNone]
              ELSE [pc |-> "rmFin", next |-> PhaseNew, msg |-> MsgNone]
         ELSE [pc |-> "idle", next |-> PhaseNew, msg |-> MsgNone]
    ELSE IF ~o.finalizer
    THEN [pc |-> "addFin", next |-> PhaseNew, msg |-> MsgNone]
    ELSE AfterFinalizer(o, past)

\* the worker holding o (current) and about to do what `plan` says
Planned(o, plan) ==
    IF plan.pc = "idle" THEN IdleWorker
    ELSE [IdleWorker EXCEPT !.pc = plan.pc, !.obj = o, !.cur = TRUE,
                            !.next = plan.next, !.msg = plan.msg]

\* after releaseResources returned nil: remove the finalizer (deletion) or
\* write phase Released
AfterRelease(wk) ==
    IF wk.obj.deleting THEN [wk EXCEPT !.pc = "rmFin", !.cl = NoRes, !.clCur = FALSE]
    ELSE [wk EXCEPT !.pc = "status", !.cl = NoRes, !.clCur = FALSE]

\* r.Get(reservation)
RGet(r) ==
    /\ w[r].pc = "idle"
    /\ rsv[r].exists
    /\ w' = [w EXCEPT ![r] = Planned(rsv[r], AfterGet(rsv[r], pastExpiry[r]))]
    /\ UNCHANGED <<adv, clock, rsv, pastExpiry, aw, inc, dec, brokerWrote, faults, publishes>>

\* AddFinalizer; r.Update(reservation); the reconcile goes on on success
RAddFinalizer(r) ==
    /\ w[r].pc = "addFin"
    /\ IF VersionMatches(w[r].cur)
       THEN LET o == [w[r].obj EXCEPT !.finalizer = TRUE]
            IN  /\ rsv' = [rsv EXCEPT ![r] = o]
                /\ w' = [w EXCEPT ![r] = Planned(o, AfterFinalizer(o, pastExpiry[r]))]
       ELSE /\ w' = [w EXCEPT ![r] = IdleWorker]
            /\ UNCHANGED rsv
    /\ UNCHANGED <<adv, clock, pastExpiry, aw, inc, dec, brokerWrote, faults, publishes>>

\* a selection whose result is not copied into spec.targetClusterID
RSelectTargetNotSet(r) ==
    /\ w[r].pc = "select"
    /\ LET o == w[r].obj
           best == DecisionEngineSelect(AdvList, o)
       IN  w' = [w EXCEPT ![r] =
                  IF best = 0
                  THEN [@ EXCEPT !.pc = "status", !.next = ReservationPhaseFailed,
                                 !.msg = MsgNoSuitable, !.seen = AdvList]
                  ELSE [@ EXCEPT !.pc = "bind", !.seen = AdvList]]
    /\ UNCHANGED <<adv, clock, rsv, pastExpiry, aw, inc, dec, brokerWrote, faults, publishes>>

\* DecisionEngine.SelectBestCluster: List, filter, rank; an error of any kind
\* makes handlePendingReservation write phase Failed
RSelect(r) ==
    /\ w[r].pc = "select"
    /\ LET o == w[r].obj
           best == DecisionEngineSelect(AdvList, o)
       IN  w' = [w EXCEPT ![r] =
                  IF best = 0
                  THEN [@ EXCEPT !.pc = "status", !.next = ReservationPhaseFailed,
                                 !.msg = MsgNoSuitable, !.seen = AdvList]
                  ELSE [@ EXCEPT !.pc = "bind", !.seen = AdvList,
                                 !.obj = [o EXCEPT !.target = AdvList[best].clusterID]]]
    /\ UNCHANGED <<adv, clock, rsv, pastExpiry, aw, inc, dec, brokerWrote, faults, publishes>>

\* r.Update(reservation) persisting spec.targetClusterID
RBindTarget(r) ==
    /\ w[r].pc = "bind"
    /\ IF VersionMatches(w[r].cur)
       THEN /\ rsv' = [rsv EXCEPT ![r] = w[r].obj]
            /\ w' = [w EXCEPT ![r] = [@ EXCEPT !.pc = "lockRead", !.seen = <<>>]]
       ELSE /\ w' = [w EXCEPT ![r] = IdleWorker]
            /\ UNCHANGED rsv
    /\ UNCHANGED <<adv, clock, pastExpiry, aw, inc, dec, brokerWrote, faults, publishes>>

\* the closure of RetryOnConflict up to its write: findClusterByID, CanReserve,
\* AddReservation on the copy
RLockRead(r) ==
    /\ w[r].pc = "lockRead"
    /\ LET t == findClusterByID(w[r].obj.target)
       IN  w' = [w EXCEPT ![r] =
                  IF t = NoCluster
                  THEN [@ EXCEPT !.pc = "status", !.next = ReservationPhaseFailed,
                                 !.msg = MsgNotFound, !.attempts = 0]
                  ELSE IF ~CanReserve(adv[t].res, w[r].obj.req)
                  THEN [@ EXCEPT !.pc = "status", !.next = ReservationPhaseFailed,
                                 !.msg = MsgInsufficient, !.attempts = 0]
                  ELSE [@ EXCEPT !.pc = "lockWrite", !.clCur = TRUE,
                                 !.cl = AddReservation(adv[t].res, w[r].obj.req)]]
    /\ UNCHANGED <<adv, clock, rsv, pastExpiry, aw, inc, dec, brokerWrote, faults, publishes>>

\* an acquisition that writes first and checks afterwards whether the
\* Advertisement still has room for the request, without undoing the write
RLockWriteCheckAfter(r) ==
    /\ w[r].pc = "lockWrite"
    /\ LET t == findClusterByID(w[r].obj.target)
           ok == CanReserve(w[r].cl, w[r].obj.req)
       IN  IF VersionMatches(w[r].clCur)
           THEN /\ adv' = [adv EXCEPT ![t].res = w[r].cl]
                /\ inc' = [inc EXCEPT ![r] = @ + 1]
                /\ brokerWrote' = [brokerWrote EXCEPT ![t] = TRUE]
                /\ w' = WorkersAfterAdvWrite(t, r,
                          [w[r] EXCEPT !.pc = "status",
                                       !.next = IF ok THEN ReservationPhaseReserved
                                                ELSE ReservationPhaseFailed,
                                       !.msg = IF ok THEN MsgLocked ELSE MsgInsufficient,
                                       !.cl = NoRes, !.clCur = FALSE, !.attempts = 0])
                /\ aw' = AdvWorkersAfterAdvWrite(t, "", IdleAdvWorker)
           ELSE /\ w' = [w EXCEPT ![r] =
                          IF t # NoCluster /\ w[r].attempts + 1 < RetrySteps
                          THEN [@ EXCEPT !.pc = "lockRead", !.attempts = @ + 1,
                                         !.cl = NoRes]
                          ELSE IdleWorker]
                /\ UNCHANGED <<adv, inc, brokerWrote, aw>>
    /\ UNCHANGED <<clock, rsv, pastExpiry, dec, faults, publishes>>

\* r.Update(clusterAdv) inside RetryOnConflict: a conflict re-runs the closure
\* until the retry budget is spent, then the reconcile returns the error; any
\* other error (the Advertisement is gone) is returned at once
RLockWrite(r) ==
    /\ w[r].pc = "lockWrite"
    /\ LET t == findClusterByID(w[r].obj.target)
       IN  IF VersionMatches(w[r].clCur)
           THEN /\ adv' = [adv EXCEPT ![t].res = w[r].cl]
                /\ inc' = [inc EXCEPT ![r] = @ + 1]
                /\ brokerWrote' = [brokerWrote EXCEPT ![t] = TRUE]
                /\ w' = WorkersAfterAdvWrite(t, r,
                          [w[r] EXCEPT !.pc = "status", !.next = ReservationPhaseReserved,
                                       !.msg = MsgLocked, !.cl = NoRes, !.clCur = FALSE,
                                       !.attempts = 0])
                /\ aw' = AdvWorkersAfterAdvWrite(t, "", IdleAdvWorker)
           ELSE /\ w' = [w EXCEPT ![r] =
                          IF t # NoCluster /\ w[r].attempts + 1 < RetrySteps
                          THEN [@ EXCEPT !.pc = "lockRead", !.attempts = @ + 1,
                                         !.cl = NoRes]
                          ELSE IdleWorker]
                /\ UNCHANGED <<adv, inc, brokerWrote, aw>>
    /\ UNCHANGED <<clock, rsv, pastExpiry, dec, faults, publishes>>

\* time.Now().After(status.expiresAt) for a reconcile running in minute t
After(t, o) == o.expiresSet /\ o.expiresAt <= t

\* a status that gets an expiry whether or not the spec has a duration
MarkReservedAlwaysExpires(o, t) ==
    [o EXCEPT !.phase = ReservationPhaseReserved,
              !.reservedAt = t,
              !.expiresSet = TRUE,
              !.expiresAt = t + o.duration]

\* "Mark as reserved": phase, reservedAt = now, and expiresAt = now + duration
\* when spec.duration is not nil
MarkReserved(o, t) ==
    [o EXCEPT !.phase = ReservationPhaseReserved,
              !.reservedAt = t,
              !.expiresSet = IF o.hasDuration THEN TRUE ELSE @,
              !.expiresAt = IF o.hasDuration THEN t + o.duration ELSE @]

\* r.Status().Update(reservation): phase, message, reservedAt, expiresAt. The
\* failure messages print the requested CPU and memory; expiresAt = now + duration
\* is already behind the clock when the duration is not positive
RStatusUpdate(r) ==
    /\ w[r].pc = "status"
    /\ IF VersionMatches(w[r].cur)
       THEN LET o == [w[r].obj EXCEPT
                           !.phase = w[r].next,
                           !.msg = w[r].msg,
                           !.msgReq = IF w[r].msg \in {MsgNoSuitable, MsgInsufficient}
                                      THEN w[r].obj.req ELSE ZeroQ]
                written == IF w[r].next = ReservationPhaseReserved
                           THEN MarkReserved(o, now) ELSE o
            IN  /\ rsv' = [rsv EXCEPT ![r] = written]
                /\ pastExpiry' = [pastExpiry EXCEPT ![r] =
                                    IF w[r].next = ReservationPhaseReserved
                                    THEN After(now, written)
                                    ELSE @]
       ELSE UNCHANGED <<rsv, pastExpiry>>
    /\ w' = [w EXCEPT ![r] = IdleWorker]
    /\ UNCHANGED <<adv, clock, aw, inc, dec, brokerWrote, faults, publishes>>

\* a release that returns an error when the target Advertisement is missing
RReleaseListMissingIsError(r) ==
    /\ w[r].pc = "relList"
    /\ LET t == findClusterByID(w[r].obj.target)
       IN  w' = [w EXCEPT ![r] =
                  IF t = NoCluster THEN IdleWorker
                  ELSE IF RemoveReservationFails(adv[t].res) THEN IdleWorker
                  ELSE [@ EXCEPT !.pc = "relWrite", !.clCur = TRUE,
                                 !.cl = RemoveReservation(adv[t].res, w[r].obj.req)]]
    /\ UNCHANGED <<adv, clock, rsv, pastExpiry, aw, inc, dec, brokerWrote, faults, publishes>>

\* releaseResources up to its write: List, find the target, RemoveReservation;
\* a missing target is logged and the release returns nil
RReleaseList(r) ==
    /\ w[r].pc = "relList"
    /\ LET t == findClusterByID(w[r].obj.target)
       IN  w' = [w EXCEPT ![r] =
                  IF t = NoCluster THEN AfterRelease(@)
                  ELSE IF RemoveReservationFails(adv[t].res) THEN IdleWorker
                  ELSE [@ EXCEPT !.pc = "relWrite", !.clCur = TRUE,
                                 !.cl = RemoveReservation(adv[t].res, w[r].obj.req)]]
    /\ UNCHANGED <<adv, clock, rsv, pastExpiry, aw, inc, dec, brokerWrote, faults, publishes>>

\* a release whose failed write is logged and not returned
RReleaseWriteErrorDropped(r) ==
    /\ w[r].pc = "relWrite"
    /\ LET t == findClusterByID(w[r].obj.target)
       IN  IF VersionMatches(w[r].clCur)
           THEN /\ adv' = [adv EXCEPT ![t].res = w[r].cl]
                /\ dec' = [dec EXCEPT ![r] = @ + 1]
                /\ brokerWrote' = [brokerWrote EXCEPT ![t] = TRUE]
                /\ w' = WorkersAfterAdvWrite(t, r, AfterRelease(w[r]))
                /\ aw' = AdvWorkersAfterAdvWrite(t, "", IdleAdvWorker)
           ELSE /\ w' = [w EXCEPT ![r] = AfterRelease(w[r])]
                /\ UNCHANGED <<adv, dec, brokerWrote, aw>>
    /\ UNCHANGED <<clock, rsv, pastExpiry, inc, faults, publishes>>

\* r.Update(targetCluster) of releaseResources: no retry, an error is returned
RReleaseWrite(r) ==
    /\ w[r].pc = "relWrite"
    /\ LET t == findClusterByID(w[r].obj.target)
       IN  IF VersionMatches(w[r].clCur)
           THEN /\ adv' = [adv EXCEPT ![t].res = w[r].cl]
                /\ dec' = [dec EXCEPT ![r] = @ + 1]
                /\ brokerWrote' = [brokerWrote EXCEPT ![t] = TRUE]
                /\ w' = WorkersAfterAdvWrite(t, r, AfterRelease(w[r]))
                /\ aw' = AdvWorkersAfterAdvWrite(t, "", IdleAdvWorker)
           ELSE /\ w' = [w EXCEPT ![r] = IdleWorker]
                /\ UNCHANGED <<adv, dec, brokerWrote, aw>>
    /\ UNCHANGED <<clock, rsv, pastExpiry, inc, faults, publishes>>

\* RemoveFinalizer; r.Update(reservation): the substrate then deletes the object
RRemoveFinalizer(r) ==
    /\ w[r].pc = "rmFin"
    /\ IF VersionMatches(w[r].cur)
       THEN rsv' = [rsv EXCEPT ![r] = [w[r].obj EXCEPT !.finalizer = FALSE,
                                                      !.exists = FALSE]]
       ELSE UNCHANGED rsv
    /\ w' = [w EXCEPT ![r] = IdleWorker]
    /\ UNCHANGED <<adv, clock, pastExpiry, aw, inc, dec, brokerWrote, faults, publishes>>


\* a substrate call of the reconcile fails with a transient error (timeout,
\* network, restart): the reconcile returns the error and is retried later
RTransientError(r) ==
    /\ w[r].pc \in {"addFin", "bind", "lockRead", "lockWrite", "status",
                    "relList", "relWrite", "rmFin"}
    /\ faults < MaxFaults
    /\ faults' = faults + 1
    /\ w' = [w EXCEPT ![r] = IdleWorker]
    /\ UNCHANGED <<adv, clock, rsv, pastExpiry, aw, inc, dec, brokerWrote, publishes>>

\* the List inside SelectBestCluster fails: the engine returns an error and
\* handlePendingReservation treats it like any other selection error
RSelectListError(r) ==
    /\ w[r].pc = "select"
    /\ faults < MaxFaults
    /\ faults' = faults + 1
    /\ w' = [w EXCEPT ![r] = [@ EXCEPT !.pc = "status", !.next = ReservationPhaseFailed,
                                       !.msg = MsgNoSuitable]]
    /\ UNCHANGED <<adv, clock, rsv, pastExpiry, aw, inc, dec, brokerWrote, publishes>>

\* ------------------------------------------ ClusterAdvertisement reconciler
\* a reconcile that also initialises a missing reserved on its copy
AGetInitialisesReserved(c) ==
    /\ aw[c].pc = "idle"
    /\ adv[c].exists
    /\ aw' = [aw EXCEPT ![c] = [pc |-> "specWrite", cur |-> TRUE,
                                cl |-> UpdateAvailableResources(
                                          [adv[c].res EXCEPT !.hasReserved = TRUE])]]
    /\ UNCHANGED <<adv, clock, rsv, pastExpiry, w, inc, dec, brokerWrote, faults, publishes>>

\* r.Get, then UpdateAvailableResources on the copy
AGet(c) ==
    /\ aw[c].pc = "idle"
    /\ adv[c].exists
    /\ aw' = [aw EXCEPT ![c] = [pc |-> "specWrite", cur |-> TRUE,
                                cl |-> UpdateAvailableResources(adv[c].res)]]
    /\ UNCHANGED <<adv, clock, rsv, pastExpiry, w, inc, dec, brokerWrote, faults, publishes>>

\* r.Update(clusterAdv); an error is logged and the reconcile goes on. A write
\* that changes nothing leaves the stored version as it is.
ASpecWrite(c) ==
    /\ aw[c].pc = "specWrite"
    /\ IF VersionMatches(aw[c].cur) /\ aw[c].cl # adv[c].res
       THEN /\ adv' = [adv EXCEPT ![c].res = aw[c].cl]
            /\ brokerWrote' = [brokerWrote EXCEPT ![c] = TRUE]
            /\ w' = WorkersAfterAdvWrite(c, "", IdleWorker)
            /\ aw' = [aw EXCEPT ![c].pc = "statusWrite"]
       ELSE /\ aw' = [aw EXCEPT ![c].pc = "statusWrite"]
            /\ UNCHANGED <<adv, brokerWrote, w>>
    /\ UNCHANGED <<clock, rsv, pastExpiry, inc, dec, faults, publishes>>

\* the threshold in force: r.StalenessThreshold, or the default when it is zero
stalenessThreshold(configured) ==
    IF configured = 0 THEN DefaultStalenessThreshold ELSE configured

\* isStale := age > stalenessThreshold
isStale(a, configured) == a > stalenessThreshold(configured)

\* Status.Active := !isStale and Status.Phase; the status writes of
\* UpdateClusterScore and of Reconcile (both carry the same Active and Phase).
\* On success the reconcile asks to be run again after AdvertisementRequeueAfter
\* (an earlier requeue that has not fired yet stays pending and fires first); on
\* an error the controller retries on its own, without a timer.
AStatusWrite(c) ==
    /\ aw[c].pc = "statusWrite"
    /\ IF VersionMatches(aw[c].cur)
       THEN /\ adv' = [adv EXCEPT
                         ![c].active = ~isStale(age[c], threshold),
                         ![c].phase = IF isStale(age[c], threshold)
                                      THEN "Stale" ELSE "Active"]
            /\ w' = WorkersAfterAdvWrite(c, "", IdleWorker)
            /\ due' = [due EXCEPT ![c] = IF @ > 0 THEN @ ELSE AdvertisementRequeueAfter]
       ELSE UNCHANGED <<adv, w, due>>
    /\ aw' = [aw EXCEPT ![c] = IdleAdvWorker]
    /\ UNCHANGED <<now, age, threshold, rsv, pastExpiry, inc, dec, brokerWrote, faults,
                   publishes>>

\* a transient error of r.Update (logged, the reconcile goes on to the status)
\* or of the status write (the reconcile returns the error)
ATransientError(c) ==
    /\ aw[c].pc \in {"specWrite", "statusWrite"}
    /\ faults < MaxFaults
    /\ faults' = faults + 1
    /\ aw' = [aw EXCEPT ![c] = IF @.pc = "specWrite" THEN [@ EXCEPT !.pc = "statusWrite"]
                               ELSE IdleAdvWorker]
    /\ UNCHANGED <<adv, clock, rsv, pastExpiry, w, inc, dec, brokerWrote, publishes>>

\* ------------------------------------------------------------- environment
\* the agent publishes: new allocated and a fresh timestamp; reserved and
\* available are the broker's to write
AgentPublish(c, a) ==
    /\ adv[c].exists
    /\ publishes < MaxPublish
    /\ a.cpu <= adv[c].res.allocatable.cpu /\ a.mem <= adv[c].res.allocatable.mem
    /\ publishes' = publishes + 1
    /\ adv' = [adv EXCEPT ![c].res.allocated = a]
    /\ age' = [age EXCEPT ![c] = 0]
    /\ UNCHANGED <<now, threshold, due>>
    /\ brokerWrote' = [brokerWrote EXCEPT ![c] = FALSE]
    /\ w' = WorkersAfterAdvWrite(c, "", IdleWorker)
    /\ aw' = AdvWorkersAfterAdvWrite(c, "", IdleAdvWorker)
    /\ UNCHANGED <<rsv, pastExpiry, inc, dec, faults>>

\* the agent publishes the advertisement as it builds it from its own
\* measurements, without the optional reserved field (after a restart, or when it
\* re-creates the object): Reserved is nil and available is what the agent computed
AgentReset(c) ==
    /\ adv[c].exists
    /\ publishes < MaxPublish
    /\ publishes' = publishes + 1
    /\ adv' = [adv EXCEPT ![c].res =
                  [adv[c].res EXCEPT
                      !.hasReserved = FALSE, !.reserved = ZeroQ,
                      !.available = QSub(adv[c].res.allocatable, adv[c].res.allocated)]]
    /\ age' = [age EXCEPT ![c] = 0]
    /\ UNCHANGED <<now, threshold, due>>
    /\ brokerWrote' = [brokerWrote EXCEPT ![c] = FALSE]
    /\ w' = WorkersAfterAdvWrite(c, "", IdleWorker)
    /\ aw' = AdvWorkersAfterAdvWrite(c, "", IdleAdvWorker)
    /\ UNCHANGED <<rsv, pastExpiry, inc, dec, faults>>

\* the ClusterAdvertisement of c is deleted (the cluster leaves the federation):
\* every copy of it goes stale and no List returns it any more
AdvertisementWithdraw(c) ==
    /\ adv[c].exists
    /\ adv' = [adv EXCEPT ![c] =
                  [exists |-> FALSE, res |-> NoRes, active |-> FALSE, phase |-> "",
                   hasCost |-> FALSE, cpuCost |-> 0, gpu |-> 0]]
    /\ brokerWrote' = [brokerWrote EXCEPT ![c] = FALSE]
    /\ w' = WorkersAfterAdvWrite(c, "", IdleWorker)
    /\ aw' = AdvWorkersAfterAdvWrite(c, "", IdleAdvWorker)
    /\ UNCHANGED <<clock, rsv, pastExpiry, inc, dec, faults, publishes>>

\* the agent of c stays silent until the age of its advertisement has passed
\* the staleness threshold
BecomeStale(c) ==
    /\ adv[c].exists /\ ~isStale(age[c], threshold)
    /\ age' = [age EXCEPT ![c] = stalenessThreshold(threshold) + 1]
    /\ UNCHANGED <<now, threshold, due>>
    /\ UNCHANGED <<adv, rsv, pastExpiry, w, aw, inc, dec, brokerWrote, faults, publishes>>

\* one minute passes: every advertisement is a minute older, the requeue
\* timers run down, and an expiresAt that lies behind is seen as passed
Tick ==
    /\ now < MaxTime
    /\ now' = now + 1
    /\ age' = [c \in Clusters |-> IF adv[c].exists THEN age[c] + 1 ELSE age[c]]
    /\ due' = [c \in Clusters |-> IF due[c] > 0 THEN due[c] - 1 ELSE 0]
    /\ pastExpiry' = [r \in Reservations |->
                        pastExpiry[r] \/ (rsv[r].exists /\ After(now + 1, rsv[r]))]
    /\ UNCHANGED <<adv, threshold, rsv, w, aw, inc, dec, brokerWrote, faults, publishes>>

\* time passes status.expiresAt
ExpiryPasses(r) ==
    /\ rsv[r].exists /\ rsv[r].expiresSet /\ ~pastExpiry[r]
    /\ pastExpiry' = [pastExpiry EXCEPT ![r] = TRUE]
    /\ UNCHANGED <<adv, clock, rsv, w, aw, inc, dec, brokerWrote, faults, publishes>>

\* a write to the reservation by somebody else: the reconciler's copy goes stale
EnvWrite(r, o) ==
    /\ rsv' = [rsv EXCEPT ![r] = o]
    /\ w' = [w EXCEPT ![r].cur = FALSE]
    /\ UNCHANGED <<adv, clock, pastExpiry, aw, inc, dec, brokerWrote, faults, publishes>>

\* the user deletes the Reservation: the substrate sets the deletion timestamp
\* while a finalizer is present and removes the object otherwise
UserDelete(r) ==
    /\ rsv[r].exists /\ ~rsv[r].deleting
    /\ EnvWrite(r, IF rsv[r].finalizer THEN [rsv[r] EXCEPT !.deleting = TRUE]
                   ELSE [rsv[r] EXCEPT !.exists = FALSE])

\* the requester sets condition RequesterActive on a Reserved reservation
RequesterActivate(r) ==
    /\ rsv[r].exists /\ rsv[r].phase = ReservationPhaseReserved /\ ~rsv[r].condActive
    /\ EnvWrite(r, [rsv[r] EXCEPT !.condActive = TRUE])

\* the requester sets condition RequesterReleased on an Active reservation
RequesterRelease(r) ==
    /\ rsv[r].exists /\ rsv[r].phase = ReservationPhaseActive /\ ~rsv[r].condReleased
    /\ EnvWrite(r, [rsv[r] EXCEPT !.condReleased = TRUE])

\* the user edits the spec of the Reservation and clears requesterID
InvalidateSpec(r) ==
    /\ rsv[r].exists /\ rsv[r].requesterID # ""
    /\ EnvWrite(r, [rsv[r] EXCEPT !.requesterID = ""])

\* ---------------------------------------------------------- specification
ReservationReconcile(r) ==
    \/ RGet(r)
    \/ RAddFinalizer(r)
    \/ RSelect(r)
    \/ RBindTarget(r)
    \/ RLockRead(r)
    \/ RLockWrite(r)
    \/ RStatusUpdate(r)
    \/ RReleaseList(r)
    \/ RReleaseWrite(r)
    \/ RRemoveFinalizer(r)

AdvertisementReconcile(c) ==
    \/ AGet(c)
    \/ ASpecWrite(c)
    \/ AStatusWrite(c)

Next ==
    \/ \E r \in Reservations : ReservationReconcile(r)
    \/ \E r \in Reservations : RTransientError(r) \/ RSelectListError(r)
    \/ \E c \in Clusters : AdvertisementReconcile(c)
    \/ \E c \in Clusters : ATransientError(c)
    \/ \E c \in Clusters : \E a \in AllocatedChoices : AgentPublish(c, a)
    \/ \E c \in Clusters : BecomeStale(c)
    \/ \E r \in Reservations : ExpiryPasses(r)
    \/ \E r \in Reservations : UserDelete(r)
    \/ \E r \in Reservations : RequesterActivate(r) \/ RequesterRelease(r)
    \/ \E r \in Reservations : InvalidateSpec(r)

Spec == Init /\ [][Next]_vars


\* ------------------------------------- scenario S6: concurrent acquisition
\* the reconcile of a reservation that is never deleted, activated or expired
PendingReconcile(r) ==
    \/ RGet(r)
    \/ RAddFinalizer(r)
    \/ RSelect(r)
    \/ RBindTarget(r)
    \/ RLockRead(r)
    \/ RLockWrite(r)
    \/ RStatusUpdate(r)

\* A is the sole advertisement, reconciled and active, 10 CPU available; two
\* reservations of 6 CPU each, either naming A or leaving the choice to the broker
InitS6 ==
    /\ InitCommon({"A"}, TRUE)
    /\ \E t1 \in {NoCluster, "A"}, t2 \in {NoCluster, "A"} :
         rsv = [r \in Reservations |->
                  NewReservation(Q(6, 4), FALSE, IF r = "r1" THEN t1 ELSE t2)]

NextS6 ==
    \/ \E r \in Reservations : PendingReconcile(r)
    \/ \E c \in Clusters : AdvertisementReconcile(c)

SpecS6 == InitS6 /\ [][NextS6]_vars

\* S6 with the controller's scheduling: a reconcile that returned an error is
\* retried and every event of a Reservation is reconciled, so a reconcile step
\* of a Reservation that can be taken is taken eventually. The Advertisement
\* reconciler is queued again by each of its own status writes and by its
\* requeue timer, and runs whenever it likes.
SpecS6Fair ==
    /\ InitS6
    /\ [][NextS6]_vars
    /\ \A r \in Reservations : WF_vars(PendingReconcile(r))


\* ------------------------- scenario: one reservation through its lifecycle
\* A and B are both advertised and active; one reservation whose spec is drawn
\* from valid and invalid values, naming A, B or no target; nothing fails and
\* the spec is never edited
InitLifecycle ==
    /\ InitCommon({"A", "B"}, TRUE)
    /\ \E id \in {"", "x"}, cpu \in {0, 2}, g \in {0, -1, 1},
          d \in {<<FALSE, 0>>, <<TRUE, -1>>, <<TRUE, 0>>, <<TRUE, 1>>},
          t \in {NoCluster, "A", "B"} :
         rsv = [r \in Reservations |->
                  IF r = "r1"
                  THEN [NewReservation(Q(cpu, 4), d[1], t) EXCEPT
                           !.requesterID = id, !.gpu = g, !.duration = d[2]]
                  ELSE NoObj]

NextLifecycle ==
    \/ \E r \in Reservations : ReservationReconcile(r)
    \/ \E r \in Reservations : ExpiryPasses(r)
    \/ \E r \in Reservations : UserDelete(r)
    \/ \E r \in Reservations : RequesterActivate(r) \/ RequesterRelease(r)

SpecLifecycle == InitLifecycle /\ [][NextLifecycle]_vars


\* ------------------------------- scenario: the decision engine's choice
\* what an advertisement may hold when a selection runs: allocatable 10/20 with
\* 8/16, 4/10 or 1/2 available
EngineResources ==
    {[allocatable |-> Q(10, 20), allocated |-> a, hasReserved |-> FALSE,
      reserved |-> ZeroQ, available |-> QSub(Q(10, 20), a)] :
        a \in {Q(2, 4), Q(6, 10), Q(9, 18)}}

\* hourly CPU rates in cents
EngineCosts == {<<FALSE, 0>>, <<TRUE, 10>>, <<TRUE, 100>>}

\* A and B are advertised with any of these resources, active or not, with or
\* without cost; two reservations with the same spec (2 CPU / 4 Gi, no target)
\* whose requester is "x" or cluster A itself
InitEngine ==
    /\ threshold = 0
    /\ InitRest
    /\ \E res \in [Clusters -> EngineResources], act \in [Clusters -> BOOLEAN],
          cost \in [Clusters -> EngineCosts] :
         adv = [c \in Clusters |->
                  [exists |-> TRUE, res |-> res[c], active |-> act[c],
                   phase |-> IF act[c] THEN "Active" ELSE "Stale",
                   hasCost |-> cost[c][1], cpuCost |-> cost[c][2], gpu |-> 0]]
    /\ \E id \in {"x", "A"}, p \in {0, 5} :
         rsv = [r \in Reservations |->
                  [NewReservation(Q(2, 4), FALSE, NoCluster) EXCEPT
                      !.requesterID = id, !.priority = p]]

NextEngine == \E r \in Reservations : PendingReconcile(r)

SpecEngine == InitEngine /\ [][NextEngine]_vars


\* ------------------------------------ scenario S5: expiry and release
\* A is advertised and active with nothing reserved; one reservation of
\* 2 CPU / 4 Gi, bound to A by the caller or by the broker, with or without a
\* duration, that nobody deletes. The requester may
\* activate and release, the agent may publish, substrate calls may fail a
\* bounded number of times. The controller requeues a Reserved or Active
\* Reservation every minute and retries a failed reconcile, so a reconcile step
\* that can be taken is taken eventually.
InitLive ==
    /\ InitCommon({"A"}, TRUE)
    /\ \E d \in BOOLEAN, t \in {NoCluster, "A"} :
         rsv = [r \in Reservations |->
                  IF r = "r1" THEN NewReservation(Q(2, 4), d, t) ELSE NoObj]

\* the reconcile of a reservation that is not deleted
LiveReconcile(r) ==
    \/ PendingReconcile(r)
    \/ RReleaseList(r)
    \/ RReleaseWrite(r)

NextLive ==
    \/ \E r \in Reservations : LiveReconcile(r)
    \/ \E r \in Reservations : RTransientError(r)
    \/ \E r \in Reservations : ExpiryPasses(r)
    \/ \E r \in Reservations : RequesterActivate(r) \/ RequesterRelease(r)
    \/ \E c \in Clusters : \E a \in AllocatedChoices : AgentPublish(c, a)

SpecLive ==
    /\ InitLive
    /\ [][NextLive]_vars
    /\ \A r \in Reservations : WF_vars(LiveReconcile(r))


\* --------------------------------- scenario: deletion and the finalizer
\* A is advertised and active; one reservation of 2 CPU / 4 Gi, bound to A by
\* the caller or by the broker, with or without a duration, that the user
\* deletes at any moment of its life. The
\* requester may activate it, the agent may publish (with or without the
\* reserved field) and substrate calls may fail, each a bounded number of
\* times. A reconcile that returns an error is retried by the controller and a
\* deleted object is reconciled on its update event, so a reconcile step that
\* can be taken is taken eventually.
InitDelete ==
    /\ InitCommon({"A"}, TRUE)
    /\ \E d \in BOOLEAN, t \in {NoCluster, "A"} :
         rsv = [r \in Reservations |->
                  IF r = "r1" THEN NewReservation(Q(2, 4), d, t) ELSE NoObj]

NextDelete ==
    \/ \E r \in Reservations : ReservationReconcile(r)
    \/ \E r \in Reservations : RTransientError(r)
    \/ \E r \in Reservations : UserDelete(r)
    \/ \E r \in Reservations : ExpiryPasses(r)
    \/ \E r \in Reservations : RequesterActivate(r)
    \/ \E c \in Clusters : \E a \in AllocatedChoices : AgentPublish(c, a)
    \/ \E c \in Clusters : AgentReset(c)

SpecDelete ==
    /\ InitDelete
    /\ [][NextDelete]_vars
    /\ \A r \in Reservations : WF_vars(ReservationReconcile(r))


\* ------------- scenario: acquisitions and releases on one advertisement
\* A is advertised and active with 10 CPU / 20 Gi, B is not advertised. r1 asks
\* for 4 CPU / 8 Gi on A; r2 asks for 4 CPU / 8 Gi (both fit) or 8 CPU / 4 Gi
\* (they do not fit together), on A, on B or where the broker chooses. Both
\* have a duration and are
\* released when it has passed. The reconciles of r1, of r2 and of the
\* advertisement interleave freely; no substrate call fails but by a conflict.
InitConcurrent ==
    /\ InitCommon({"A"}, TRUE)
    /\ \E q2 \in {Q(4, 8), Q(8, 4)}, t2 \in {NoCluster, "A", "B"} :
         rsv = [r \in Reservations |->
                  IF r = "r1" THEN NewReservation(Q(4, 8), TRUE, "A")
                  ELSE NewReservation(q2, TRUE, t2)]

NextConcurrent ==
    \/ \E r \in Reservations : LiveReconcile(r)
    \/ \E c \in Clusters : AdvertisementReconcile(c)
    \/ \E r \in Reservations : ExpiryPasses(r)

SpecConcurrent == InitConcurrent /\ [][NextConcurrent]_vars


\* ------------------------------------------ scenario: the clock runs
\* A has just been published by its agent and is not yet reconciled. The
\* advertisement reconciler runs with StalenessThreshold unset or set to
\* 6 minutes. One reservation of 2 CPU / 4 Gi without target, with no duration
\* or one of 2 minutes, that is followed until it is Reserved or Failed.
\* Minutes pass one by one; the agent may publish again or stay silent;
\* reconciles of the advertisement run on their requeue and on any event.
InitTimed ==
    /\ adv = [c \in Clusters |->
                IF c = "A"
                THEN [exists |-> TRUE, res |-> InitialResources[c], active |-> FALSE,
                      phase |-> "", hasCost |-> FALSE, cpuCost |-> 0, gpu |-> 0]
                ELSE [exists |-> FALSE, res |-> NoRes, active |-> FALSE, phase |-> "",
                      hasCost |-> FALSE, cpuCost |-> 0, gpu |-> 0]]
    /\ threshold \in {0, 6}
    /\ InitRest
    /\ \E d \in {0, 2} :
         rsv = [r \in Reservations |->
                  IF r = "r1"
                  THEN [NewReservation(Q(2, 4), d > 0, NoCluster) EXCEPT !.duration = d]
                  ELSE NoObj]

NextTimed ==
    \/ Tick
    \/ \E c \in Clusters : AdvertisementReconcile(c)
    \/ \E c \in Clusters : \E a \in AllocatedChoices : AgentPublish(c, a)
    \/ \E r \in Reservations : PendingReconcile(r)

SpecTimed == InitTimed /\ [][NextTimed]_vars


\* ------------------- scenario: the target advertisement is withdrawn
\* A is advertised and active; one reservation of 2 CPU / 4 Gi, bound to A by
\* the caller or by the broker, with or without a duration. The advertisement
\* of A may be deleted at any moment; the requester may activate and release,
\* the user may delete the reservation, and substrate calls may fail a bounded
\* number of times.
InitWithdraw ==
    /\ InitCommon({"A"}, TRUE)
    /\ \E d \in BOOLEAN, t \in {NoCluster, "A"} :
         rsv = [r \in Reservations |->
                  IF r = "r1" THEN NewReservation(Q(2, 4), d, t) ELSE NoObj]

NextWithdraw ==
    \/ \E r \in Reservations : ReservationReconcile(r)
    \/ \E r \in Reservations : RTransientError(r)
    \/ \E r \in Reservations : UserDelete(r)
    \/ \E r \in Reservations : ExpiryPasses(r)
    \/ \E r \in Reservations : RequesterActivate(r) \/ RequesterRelease(r)
    \/ \E c \in Clusters : AdvertisementWithdraw(c)

SpecWithdraw == InitWithdraw /\ [][NextWithdraw]_vars


\* ------------------------- scenario: two candidates, one race for the best
\* A (allocatable 10 CPU / 20 Gi, 4 CPU / 8 Gi allocated, so 6 / 12 available)
\* and B (4 CPU / 8 Gi available) are advertised and active. Two reservations of
\* 4 CPU / 8 Gi leave the choice to the broker: each fits A and fits B, and A has
\* room for one of them only. The reconciles of the reservations and of the
\* advertisements interleave freely.
InitRace ==
    /\ adv = [c \in Clusters |->
                [exists |-> TRUE,
                 res |-> IF c = "A"
                         THEN [InitialResources[c] EXCEPT !.allocated = Q(4, 8),
                                                          !.available = Q(6, 12)]
                         ELSE InitialResources[c],
                 active |-> TRUE, phase |-> "Active",
                 hasCost |-> FALSE, cpuCost |-> 0, gpu |-> 0]]
    /\ threshold = 0
    /\ InitRest
    /\ rsv = [r \in Reservations |-> NewReservation(Q(4, 8), FALSE, NoCluster)]

NextRace ==
    \/ \E r \in Reservations : PendingReconcile(r)
    \/ \E c \in Clusters : AdvertisementReconcile(c)

SpecRace == InitRace /\ [][NextRace]_vars


\* ---------------------------------- scenario: the priority of the request
\* A and B are advertised with any of the engine's resources, active or not,
\* without cost. Two reservations of 2 CPU / 4 Gi without target differ in
\* their priority only: r1 has the default 0, r2 a positive or a large negative
\* one.
InitPriority ==
    /\ threshold = 0
    /\ InitRest
    /\ \E res \in [Clusters -> EngineResources], act \in [Clusters -> BOOLEAN] :
         adv = [c \in Clusters |->
                  [exists |-> TRUE, res |-> res[c], active |-> act[c],
                   phase |-> IF act[c] THEN "Active" ELSE "Stale",
                   hasCost |-> FALSE, cpuCost |-> 0, gpu |-> 0]]
    /\ \E p \in {5, -400} :
         rsv = [r \in Reservations |->
                  [NewReservation(Q(2, 4), FALSE, NoCluster) EXCEPT
                      !.priority = IF r = "r1" THEN 0 ELSE p]]

NextPriority == \E r \in Reservations : PendingReconcile(r)

SpecPriority == InitPriority /\ [][NextPriority]_vars


\* ------------------------------------------------------------------ claims
RECURSIVE SumRequested(_, _)
\* the sum of requestedResources over the reservations of S that hold capacity
\* of cluster c by their phase
SumRequested(S, c) ==
    IF S = {} THEN ZeroQ
    ELSE LET r == CHOOSE x \in S : TRUE
             rest == SumRequested(S \ {r}, c)
         IN  IF rsv[r].exists /\ rsv[r].phase \in Holding /\ rsv[r].target = c
             THEN QAdd(rest, rsv[r].req) ELSE rest

\* reserved as counted, a nil Reserved being zero
ReservedOf(c) == IF adv[c].res.hasReserved THEN adv[c].res.reserved ELSE ZeroQ

\* no reconcile is in flight, and a reconcile of r now would find nothing to do
AtRest(r) ==
    /\ w[r].pc = "idle"
    /\ rsv[r].exists => AfterGet(rsv[r], pastExpiry[r]).pc = "idle"

Quiescent ==
    /\ \A r \in Reservations : AtRest(r)
    /\ \A c \in Clusters : aw[c].pc = "idle"

\* both reservations of S6 have a phase written
S6Ended == \A r \in Reservations : rsv[r].phase # PhaseNew

S6Winners == {r \in Reservations : rsv[r].phase = ReservationPhaseReserved}

\* C1 (as stated): in S6, when both reservations have ended, exactly one is
\* Reserved, the other is Failed with the insufficient-resources outcome, and
\* A's reserved CPU is 6; it is never 12
C1_DoubleBookingAsStated ==
    /\ ReservedOf("A").cpu # 12
    /\ S6Ended =>
         /\ Cardinality(S6Winners) = 1
         /\ \A r \in Reservations \ S6Winners :
               /\ rsv[r].phase = ReservationPhaseFailed
               /\ rsv[r].msg = MsgInsufficient
         /\ ReservedOf("A").cpu = 6

\* C1 (amended): in S6, when both reservations have ended, exactly one is
\* Reserved and A's reserved CPU is 6, never 12; the other is Failed, with the
\* insufficient-resources outcome when its target was bound (named by the caller
\* or selected before the winner's increment was visible) and with the
\* no-suitable-cluster outcome, target still empty, when its selection ran after
\* the winner's increment
C1_DoubleBooking ==
    /\ ReservedOf("A").cpu \in {0, 6}
    /\ S6Ended =>
         /\ Cardinality(S6Winners) = 1
         /\ \A r \in Reservations \ S6Winners :
               /\ rsv[r].phase = ReservationPhaseFailed
               /\ rsv[r].msg = IF rsv[r].target = NoCluster THEN MsgNoSuitable
                               ELSE MsgInsufficient
         /\ ReservedOf("A").cpu = 6

\* C1 witness: both ended, and the loser had entered the locking protocol for A
\* after at least one version conflict of the acquisition write was possible
C1_Witness ==
    /\ S6Ended
    /\ \E r \in Reservations :
         /\ rsv[r].phase = ReservationPhaseFailed
         /\ rsv[r].msg = MsgInsufficient
         /\ rsv[r].target = "A"
    /\ \E r \in Reservations : rsv[r].phase = ReservationPhaseReserved


\* C2: whenever no reconcile is in progress or outstanding, every advertised
\* cluster's reserved equals the sum of requestedResources over the Reserved or
\* Active reservations bound to it
C2_AccountingEquality ==
    Quiescent =>
        \A c \in Clusters :
            adv[c].exists => ReservedOf(c) = SumRequested(Reservations, c)

\* C3: a Reservation in Failed or Released has no increment still counted: every
\* committed increment made for it has been matched by a committed decrement
C3_TerminalHoldsNothing ==
    \A r \in Reservations :
        rsv[r].phase \in Terminal => inc[r] <= dec[r]

\* C4: for every Reservation the target's reserved is decremented at most once
C4_ReleaseAtMostOnce == \A r \in Reservations : dec[r] <= 1

\* C5: for every Reservation the target's reserved is incremented at most once,
\* also when the write of phase Reserved failed after the increment
C5_AcquireAtMostOnce == \A r \in Reservations : inc[r] <= 1

\* the finalizer of r has been removed (the object is gone) while the
\* Reservation was holding capacity by its phase
DeletedWhileHolding(r) ==
    /\ ~rsv[r].exists
    /\ rsv[r].deleting
    /\ rsv[r].phase \in Holding

\* C6: once the finalizer of a deleted Reserved or Active Reservation is removed,
\* exactly what its acquisition added has been removed: one decrement, matching
\* one increment
C6_DeletionRoundTrip ==
    \A r \in Reservations :
        DeletedWhileHolding(r) => (dec[r] = 1 /\ inc[r] = dec[r])

\* C7: once a Reservation's phase is Failed or Released no step changes it
C7_TerminalAbsorbing ==
    [][\A r \in Reservations :
          rsv[r].phase \in Terminal => rsv'[r].phase = rsv[r].phase]_vars

AllowedTransitions ==
    {<<PhaseNew, ReservationPhaseReserved>>,
     <<ReservationPhasePending, ReservationPhaseReserved>>,
     <<PhaseNew, ReservationPhaseFailed>>,
     <<ReservationPhasePending, ReservationPhaseFailed>>,
     <<ReservationPhaseReserved, ReservationPhaseActive>>,
     <<ReservationPhaseReserved, ReservationPhaseReleased>>,
     <<ReservationPhaseActive, ReservationPhaseReleased>>}

\* C8: every phase change is one of the transitions of the state diagram; in
\* particular Failed is entered only from empty or Pending
C8_OnlyDiagramTransitions ==
    [][\A r \in Reservations :
          rsv'[r].phase # rsv[r].phase =>
              <<rsv[r].phase, rsv'[r].phase>> \in AllowedTransitions]_vars

Max0(n) == IF n < 0 THEN 0 ELSE n

C10_ReservedWithinBounds ==
    \A c \in Clusters :
        (adv[c].exists /\ brokerWrote[c]) =>
            /\ 0 <= ReservedOf(c).cpu /\ ReservedOf(c).cpu <= adv[c].res.allocatable.cpu
            /\ 0 <= ReservedOf(c).mem /\ ReservedOf(c).mem <= adv[c].res.allocatable.mem

\* C11: immediately after every successful acquisition write,
\* reserved + allocated <= allocatable for CPU and memory of the written
\* advertisement, also when the agent changed allocated since the advertisement
\* was last reconciled
C11_NoOverCommit ==
    [][\A r \in Reservations :
          inc'[r] > inc[r] =>
              LET m == adv'[findClusterByID(w[r].obj.target)].res
              IN  /\ m.reserved.cpu + m.allocated.cpu <= m.allocatable.cpu
                  /\ m.reserved.mem + m.allocated.mem <= m.allocatable.mem]_vars

\* C12: every acquisition and every release done for a Reservation writes only
\* the Advertisement whose clusterID is the Reservation's targetClusterID; all
\* other Advertisements are left unchanged
C12_OnlyTargetWritten ==
    [][\A r \in Reservations : \A c \in Clusters :
          ((inc'[r] # inc[r] \/ dec'[r] # dec[r]) /\ adv'[c] # adv[c]) =>
              c = w[r].obj.target]_vars

\* C12 witness: capacity was acquired on B and released again while A, listed
\* before B, stands untouched
C12_Witness ==
    /\ rsv["r1"].target = "B" /\ inc["r1"] = 1 /\ dec["r1"] = 1
    /\ adv["A"].exists /\ adv["A"].res = InitialResources["A"]

\* the validation the Reservation contract asks for: requesterID non-empty, CPU
\* and memory strictly positive, GPU non-negative, duration > 0 when present
ValidAsSpecified(o) ==
    /\ o.requesterID # ""
    /\ o.req.cpu > 0 /\ o.req.mem > 0
    /\ o.gpu >= 0
    /\ o.hasDuration => o.duration > 0

\* C19: a Reservation whose spec is invalid (empty requesterID, CPU or memory not
\* strictly positive, negative GPU, duration present and not > 0) never acquires
\* capacity, and the only phase its reconcile writes is Failed
C19_InvalidNeverAcquires ==
    \A r \in Reservations :
        ~ValidAsSpecified(rsv[r]) =>
            /\ inc[r] = 0
            /\ rsv[r].phase \in {PhaseNew, ReservationPhaseFailed}

\* an advertisement that the filters of the selection let through
Survives(it, requesterID, req) ==
    /\ it.active
    /\ it.clusterID # requesterID
    /\ it.res.available.cpu >= req.cpu
    /\ it.res.available.mem >= req.mem

\* the reconcile of r has just run the selection and got an advertisement
SelectReturned(r) == w[r].pc = "select" /\ w'[r].pc = "bind"

\* C13: whenever SelectBestCluster returns an Advertisement it is active, its
\* clusterID differs from the requesterID and its available CPU and memory
\* cover the request
C13_SelectedIsEligible ==
    [][\A r \in Reservations :
          SelectReturned(r) =>
              LET c == w'[r].obj.target
              IN  /\ c \in Clusters /\ adv[c].exists
                  /\ adv[c].active
                  /\ c # w[r].obj.requesterID
                  /\ adv[c].res.available.cpu >= w[r].obj.req.cpu
                  /\ adv[c].res.available.mem >= w[r].obj.req.mem]_vars

\* C13 witness: B was selected while A, listed first and with room, was dropped
\* for being inactive or for being the requester's own cluster
C13_Witness ==
    \E r \in Reservations :
        /\ w[r].pc = "bind" /\ w[r].obj.target = "B"
        /\ adv["A"].res.available.cpu >= w[r].obj.req.cpu
        /\ (~adv["A"].active \/ w[r].obj.requesterID = "A")

\* i scores at most j (strictly less when strict) for this request
ScoreLeq(i, j, req, priority) ==
    ScoreNum(i, req, priority) * ScoreDen(j) <= ScoreNum(j, req, priority) * ScoreDen(i)

ScoreLess(i, j, req, priority) ==
    ScoreNum(i, req, priority) * ScoreDen(j) < ScoreNum(j, req, priority) * ScoreDen(i)

\* C14: the Advertisement returned has the maximal score among those that
\* survive filtering and is the first of them in list order with that score;
\* no survivor with the same allocatable, no cost and strictly more available
\* CPU and memory is passed over for a returned one without cost
C14_MaximalScoreFirstWins ==
    [][\A r \in Reservations :
          SelectReturned(r) =>
              LET o == w[r].obj
                  L == AdvList
                  b == CHOOSE i \in 1..Len(L) : L[i].clusterID = w'[r].obj.target
              IN  \A j \in 1..Len(L) :
                      Survives(L[j], o.requesterID, o.req) =>
                          /\ ScoreLeq(L[j], L[b], o.req, o.priority)
                          /\ j < b => ScoreLess(L[j], L[b], o.req, o.priority)
                          /\ ~(/\ L[j].res.allocatable = L[b].res.allocatable
                               /\ ~L[j].hasCost /\ ~L[b].hasCost
                               /\ L[j].res.available.cpu > L[b].res.available.cpu
                               /\ L[j].res.available.mem > L[b].res.available.mem)]_vars

\* C14 witness: both advertisements survived with the same score and no cost,
\* and A, the first listed, was returned
C14_Witness ==
    \E r \in Reservations :
        /\ w[r].pc = "bind" /\ w[r].obj.target = "A"
        /\ Len(w[r].seen) = 2
        /\ \A i \in 1..2 : Survives(w[r].seen[i], w[r].obj.requesterID, w[r].obj.req)
        /\ w[r].seen[1].res = w[r].seen[2].res
        /\ ~w[r].seen[1].hasCost /\ ~w[r].seen[2].hasCost

\* C15: of two surviving candidates with equal headroom that both advertise a
\* cost, the one with the lower hourly cost is returned, in either list order
C15_CheaperWins ==
    [][\A r \in Reservations :
          SelectReturned(r) =>
              LET o == w[r].obj
                  L == AdvList
              IN  \A i, j \in 1..Len(L) :
                      (/\ Survives(L[i], o.requesterID, o.req)
                       /\ Survives(L[j], o.requesterID, o.req)
                       /\ L[i].res = L[j].res
                       /\ L[i].hasCost /\ L[j].hasCost
                       /\ L[i].cpuCost < L[j].cpuCost)
                      => w'[r].obj.target # L[j].clusterID]_vars

\* the outcome of a selection that has run: the advertisement bound, or none
SelectionDone(r) ==
    \/ w[r].pc = "bind"
    \/ w[r].pc = "status" /\ w[r].msg = MsgNoSuitable

C17_NoSurvivorFails ==
    [][\A r \in Reservations :
          /\ (/\ w[r].pc = "select" /\ w'[r] # w[r]
              /\ \A i \in 1..Len(AdvList) :
                    ~Survives(AdvList[i], w[r].obj.requesterID, w[r].obj.req))
             => (/\ w'[r].pc = "status"
                 /\ w'[r].next = ReservationPhaseFailed
                 /\ w'[r].msg = MsgNoSuitable
                 /\ w'[r].obj.target = NoCluster)
          /\ (/\ w[r].pc = "status" /\ w[r].msg = MsgNoSuitable
              /\ rsv'[r] # rsv[r])
             => (/\ rsv'[r].phase = ReservationPhaseFailed
                 /\ rsv'[r].msg = MsgNoSuitable
                 /\ rsv'[r].msgReq = rsv'[r].req
                 /\ rsv'[r].target = NoCluster)]_vars

\* C17 witness: the only eligible candidate had 1 CPU available for a request of
\* 2 CPU and the Reservation is Failed
C17_Witness ==
    \E r \in Reservations :
        /\ rsv[r].phase = ReservationPhaseFailed /\ rsv[r].msg = MsgNoSuitable
        /\ rsv[r].req.cpu = 2 /\ rsv[r].msgReq.cpu = 2
        /\ rsv[r].requesterID = "A"
        /\ adv["B"].active /\ adv["B"].res.available.cpu = 1

\* C20: a transient failure of a read, list or write while a Reservation is
\* handled in phase empty/Pending (the list inside the decision engine
\* included), and a version conflict that outlasts the retry budget, end the
\* reconcile with the error: no write of phase Failed is made or prepared
C20_TransientNotFailed ==
    [][\A r \in Reservations :
          (/\ w[r].obj.phase \in {PhaseNew, ReservationPhasePending}
           /\ w'[r] # w[r]
           /\ \/ faults' > faults
              \/ w[r].pc = "lockWrite" /\ inc'[r] = inc[r])
          => (/\ w'[r].next # ReservationPhaseFailed
              /\ rsv'[r] = rsv[r])]_vars

\* the release of r is due: it holds capacity and its expiresAt has passed, or
\* it is Active and the requester has released it
ReleaseDue(r) ==
    /\ rsv[r].exists
    /\ \/ rsv[r].phase \in Holding /\ rsv[r].expiresSet /\ pastExpiry[r]
       \/ rsv[r].phase = ReservationPhaseActive /\ rsv[r].condReleased

\* C18: a Reservation whose release is due eventually is in phase Released with
\* its requestedResources removed from the target's reserved, which is back at
\* 0/0 as before the acquisition
C18_ExpiryHonoured ==
    \A r \in Reservations :
        ReleaseDue(r) ~>
            (/\ rsv[r].phase = ReservationPhaseReleased
             /\ ReservedOf(rsv[r].target) = ZeroQ)

\* C18, the progress part alone: a Reservation whose release is due eventually
\* is in phase Released
C18_EventuallyReleased ==
    \A r \in Reservations :
        ReleaseDue(r) ~> (rsv[r].phase = ReservationPhaseReleased)

\* C21: the finalizer of a Reservation is removed only from a deleted Reservation
\* and only by a reconcile in which releaseResources returned success (it had
\* nothing to release, found no target, or its release write was accepted); a
\* release write that fails ends the reconcile with the finalizer in place and
\* every Advertisement as it was
C21_FinalizerBlocksDeletion ==
    [][\A r \in Reservations :
          /\ (rsv[r].finalizer /\ ~rsv'[r].finalizer)
             => (w[r].pc = "rmFin" /\ rsv[r].deleting /\ w[r].obj.deleting)
          /\ (w'[r].pc = "rmFin" /\ w[r].pc # "rmFin")
             => \/ /\ w[r].pc = "relWrite"
                   /\ dec'[r] = dec[r] + 1
                   /\ ReservedOf(w[r].obj.target) =
                         QAdd(adv'[w[r].obj.target].res.reserved, w[r].obj.req)
                \/ w[r].pc = "relList" /\ ~ClusterFound(w[r].obj.target)
                \/ /\ w[r].pc = "idle"
                   /\ rsv[r].deleting /\ rsv[r].finalizer /\ ~ReleaseActs(rsv[r])
          /\ (w[r].pc = "relWrite" /\ w'[r].pc # "relWrite" /\ dec'[r] = dec[r])
             => (/\ w'[r].pc = "idle"
                 /\ adv' = adv
                 /\ rsv' = rsv)]_vars

\* C21 witness: the release write of a deleted Reservation that holds capacity
\* is about to be rejected, the Advertisement having been written since the read
C21_Witness ==
    \E r \in Reservations :
        /\ w[r].pc = "relWrite" /\ ~w[r].clCur
        /\ w[r].obj.deleting /\ rsv[r].finalizer
        /\ ReservedOf("A") = w[r].obj.req

\* C22: every Reservation with a deletion timestamp eventually has its
\* finalizer removed, also when the target's reserved is absent or smaller than
\* the Reservation's requestedResources
C22_NoStuckFinalizer ==
    \A r \in Reservations :
        (rsv[r].exists /\ rsv[r].deleting) ~> ~rsv[r].exists

RECURSIVE SumCommitted(_, _)
\* what the committed acquisitions and releases of the reservations of S on
\* cluster c add up to
SumCommitted(S, c) ==
    IF S = {} THEN ZeroQ
    ELSE LET r == CHOOSE x \in S : TRUE
             rest == SumCommitted(S \ {r}, c)
             n == inc[r] - dec[r]
         IN  IF rsv[r].target = c
             THEN QAdd(rest, Q(n * rsv[r].req.cpu, n * rsv[r].req.mem)) ELSE rest

\* C23: under any interleaving of acquisitions, releases and advertisement
\* reconciles on the same Advertisement no committed increment or decrement of
\* reserved is lost: reserved equals the initial reserved (none) plus the
\* committed acquisitions minus the committed releases
C23_Linearizable ==
    \A c \in Clusters :
        adv[c].exists => ReservedOf(c) = SumCommitted(Reservations, c)

\* C23 witness: r1 holds 4 CPU / 8 Gi of A and the acquisition write of r2,
\* computed from the Advertisement as it was before, is about to be rejected
C23_Witness ==
    /\ inc["r1"] = 1 /\ dec["r1"] = 0
    /\ ReservedOf("A") = Q(4, 8)
    /\ w["r2"].pc = "lockWrite" /\ ~w["r2"].clCur
    /\ w["r2"].cl.reserved = w["r2"].obj.req

\* the outcomes of a failed acquisition
AcquisitionFailures == {MsgNotFound, MsgInsufficient}

\* C29: a reconcile that moves a Reservation to Failed because the target is not
\* found or has insufficient resources leaves every Advertisement unchanged,
\* also after a retry on a version conflict: the step that decides the failure
\* and the step that writes phase Failed change no Advertisement, a rejected
\* acquisition write changes none, and no acquisition write was committed for
\* the Reservation
C29_FailedLeavesAdvertisements ==
    [][\A r \in Reservations :
          /\ (/\ w'[r].pc = "status" /\ w[r].pc # "status"
              /\ w'[r].next = ReservationPhaseFailed
              /\ w'[r].msg \in AcquisitionFailures)
             => (adv' = adv /\ inc'[r] = 0 /\ w[r].pc = "lockRead")
          /\ (/\ rsv'[r].phase = ReservationPhaseFailed
              /\ rsv[r].phase # ReservationPhaseFailed
              /\ rsv'[r].msg \in AcquisitionFailures)
             => (adv' = adv /\ inc'[r] = 0)
          /\ (w[r].pc = "lockWrite" /\ w'[r].pc = "lockRead")
             => adv' = adv]_vars

\* C29 witness: the acquisition write of r2 was rejected and the closure, run
\* again, finds that A no longer has room for its 8 CPU
C29_Witness ==
    /\ w["r2"].pc = "lockRead" /\ w["r2"].attempts > 0
    /\ w["r2"].obj.target = "A"
    /\ ~CanReserve(adv["A"].res, w["r2"].obj.req)
    /\ ReservedOf("A") = Q(4, 8)

\* the default staleness threshold the documentation states, in minutes
DocumentedStalenessThreshold == 10

\* the status write of the advertisement reconcile of c is accepted in this step
AdvStatusWritten(c) ==
    /\ aw[c].pc = "statusWrite" /\ aw'[c].pc = "idle"
    /\ VersionMatches(aw[c].cur)
    /\ faults' = faults

\* C24: each reconcile of an Advertisement sets active=false and phase=Stale
\* exactly when the age of its timestamp exceeds the staleness threshold, and
\* active=true and phase=Active otherwise, the threshold being 10 minutes when
\* none is configured
C24_FreshnessRule ==
    [][\A c \in Clusters :
          AdvStatusWritten(c) =>
              LET limit == IF threshold = 0 THEN DocumentedStalenessThreshold
                           ELSE threshold
              IN  IF age[c] > limit
                  THEN ~adv'[c].active /\ adv'[c].phase = "Stale"
                  ELSE adv'[c].active /\ adv'[c].phase = "Active"]_vars

\* C25: the next reconcile of an Advertisement is scheduled no later than the
\* staleness threshold after its timestamp: an Advertisement whose age exceeds
\* the threshold is not left with active=true (selectable by the decision
\* engine) unless its reconcile is due or running
C25_RequeueBeforeStale ==
    \A c \in Clusters :
        (adv[c].exists /\ adv[c].active /\ isStale(age[c], threshold))
            => (due[c] = 0 \/ aw[c].pc # "idle")

\* C28: when the acquisition for a Reservation in phase empty/Pending succeeds,
\* the same reconcile goes on to write phase Reserved, and the status it writes
\* has reservedAt = now and expiresAt = reservedAt + duration if and only if
\* spec.duration is present; expiresAt stays unset otherwise
C28_ReservedStatus ==
    [][\A r \in Reservations :
          /\ (w[r].pc = "lockWrite" /\ inc'[r] = inc[r] + 1)
             => (/\ w[r].obj.phase \in {PhaseNew, ReservationPhasePending}
                 /\ w'[r].pc = "status"
                 /\ w'[r].next = ReservationPhaseReserved)
          /\ (rsv'[r].phase = ReservationPhaseReserved
              /\ rsv[r].phase # ReservationPhaseReserved)
             => (/\ rsv[r].phase \in {PhaseNew, ReservationPhasePending}
                 /\ w[r].pc = "status" /\ w[r].msg = MsgLocked
                 /\ rsv'[r].reservedAt = now
                 /\ IF rsv[r].hasDuration
                    THEN /\ rsv'[r].expiresSet
                         /\ rsv'[r].expiresAt = rsv'[r].reservedAt + rsv[r].duration
                    ELSE /\ ~rsv'[r].expiresSet
                         /\ rsv'[r].expiresAt = NoTime)]_vars

\* C28 witness: a Reservation with a duration of 2 minutes was Reserved after
\* the clock had advanced and expires 2 minutes after reservedAt
C28_Witness ==
    \E r \in Reservations :
        /\ rsv[r].phase = ReservationPhaseReserved
        /\ rsv[r].hasDuration /\ rsv[r].duration = 2
        /\ rsv[r].reservedAt > 0
        /\ rsv[r].expiresSet /\ rsv[r].expiresAt = rsv[r].reservedAt + 2

\* C26 (as stated): whenever a Reservation's phase is Reserved, Active, Failed
\* or Released, its spec.targetClusterID is set
C26_TargetBoundAsStated ==
    \A r \in Reservations :
        (rsv[r].exists /\ rsv[r].phase \notin {PhaseNew, ReservationPhasePending})
            => rsv[r].target # NoCluster

\* C26 (amended): whenever a Reservation's phase is Reserved, Active or
\* Released, or Failed by the acquisition (target not found, insufficient
\* resources), its spec.targetClusterID is set to one cluster identifier; a
\* Reservation that Failed in validation or because no cluster was suitable may
\* have none
C26_TargetBound ==
    \A r \in Reservations :
        (/\ rsv[r].exists
         /\ \/ rsv[r].phase \in Holding \cup {ReservationPhaseReleased}
            \/ /\ rsv[r].phase = ReservationPhaseFailed
               /\ rsv[r].msg \in AcquisitionFailures)
        => rsv[r].target \in Clusters

\* C26 witness: a Reservation created without target is Reserved on the cluster
\* the broker bound it to
C26_Witness ==
    \E r \in Reservations :
        /\ rsv[r].phase = ReservationPhaseReserved
        /\ rsv[r].target = "A"
        /\ inc[r] = 1
        /\ ReservedOf("B") = ZeroQ /\ ReservedOf("A") = rsv[r].req

\* C27: no Reservation reaches phase Reserved while requesting more GPU than
\* its target Advertisement has available
C27_GpuChecked ==
    [][\A r \in Reservations :
          (/\ rsv'[r].phase = ReservationPhaseReserved
           /\ rsv[r].phase # ReservationPhaseReserved
           /\ rsv[r].gpu > 0)
          => (/\ rsv[r].target \in Clusters
              /\ adv[rsv[r].target].gpu >= rsv[r].gpu)]_vars

\* C30: for a Reservation in phase Reserved that is not being deleted, condition
\* RequesterActive takes precedence over expiry: its reconcile goes to write
\* phase Active also when expiresAt is in the past, the write of Active changes
\* no Advertisement, and capacity of an activated Reservation is released only
\* by a reconcile that read it in phase Active
C30_ActiveBeforeExpiry ==
    [][\A r \in Reservations :
          /\ (/\ w[r].pc = "idle" /\ w'[r].pc # "idle"
              /\ rsv[r].phase = ReservationPhaseReserved
              /\ rsv[r].condActive /\ ~rsv[r].deleting /\ rsv[r].finalizer
              /\ validateReservationSpec(rsv[r]))
             => (w'[r].pc = "status" /\ w'[r].next = ReservationPhaseActive)
          /\ (rsv'[r].phase = ReservationPhaseActive
              /\ rsv[r].phase # ReservationPhaseActive)
             => (adv' = adv /\ dec'[r] = dec[r] /\ w[r].obj.condActive)
          /\ (dec'[r] > dec[r] /\ w[r].obj.condActive /\ ~w[r].obj.deleting)
             => w[r].obj.phase = ReservationPhaseActive]_vars

\* C30 witness: a Reservation whose expiresAt was already behind when it became
\* Reserved is about to be written Active, nothing released
C30_Witness ==
    \E r \in Reservations :
        /\ w[r].pc = "status" /\ w[r].next = ReservationPhaseActive
        /\ w[r].obj.expiresSet /\ w[r].obj.duration <= 0 /\ pastExpiry[r]
        /\ dec[r] = 0

\* C31: when a Reservation in phase Reserved or Active is released (expiry,
\* requester release or deletion) and no Advertisement with its targetClusterID
\* exists any more, the release is treated as successful: no Advertisement is
\* modified, no decrement is counted, and the reconcile goes on to write phase
\* Released, or to remove the finalizer on deletion, without being retried
C31_MissingTargetReleases ==
    [][\A r \in Reservations :
          (/\ w[r].pc = "relList" /\ w'[r].pc # "relList"
           /\ faults' = faults
           /\ w[r].obj.phase \in Holding
           /\ ~ClusterFound(w[r].obj.target))
          => (/\ adv' = adv
              /\ dec'[r] = dec[r]
              /\ IF w[r].obj.deleting
                 THEN w'[r].pc = "rmFin"
                 ELSE /\ w'[r].pc = "status"
                      /\ w'[r].next = ReservationPhaseReleased)]_vars

\* C31 witness: a Reservation that had acquired capacity of A is Released after
\* the Advertisement of A was deleted, and no decrement was written
C31_Witness ==
    \E r \in Reservations :
        /\ rsv[r].exists /\ rsv[r].phase = ReservationPhaseReleased
        /\ rsv[r].target = "A" /\ ~adv["A"].exists
        /\ inc[r] = 1 /\ dec[r] = 0

\* C32: releaseResources is a no-op unless the phase is Reserved or Active: the
\* reconcile of a deleted Reservation whose phase is empty, Pending, Failed or
\* Released goes straight to the removal of the finalizer, the removal leaves
\* every Advertisement unchanged, and no decrement is ever written by a
\* reconcile that read another phase than Reserved or Active
C32_ReleaseOnlyWhenHolding ==
    [][\A r \in Reservations :
          /\ (/\ w[r].pc = "idle" /\ w'[r].pc # "idle"
              /\ rsv[r].deleting /\ rsv[r].finalizer
              /\ rsv[r].phase \notin Holding)
             => (w'[r].pc = "rmFin" /\ adv' = adv)
          /\ (/\ w[r].pc = "rmFin" /\ w[r].obj.phase \notin Holding
              /\ rsv[r].exists /\ ~rsv'[r].exists)
             => (adv' = adv /\ dec'[r] = dec[r])
          /\ dec'[r] > dec[r] => w[r].obj.phase \in Holding]_vars

\* C32 witness: a Reservation deleted before any phase was written is gone, its
\* finalizer removed, and the Advertisement of its target was not decremented
C32_Witness ==
    \E r \in Reservations :
        /\ ~rsv[r].exists /\ rsv[r].deleting /\ ~rsv[r].finalizer
        /\ rsv[r].phase = PhaseNew /\ rsv[r].target = "A"
        /\ dec[r] = 0
        /\ adv["A"].res = InitialResources["A"]

\* C33: for every Reservation the write that increments the target's reserved
\* is committed before the write of phase Reserved, and the write that
\* decrements it before the write of phase Released (there is none to commit
\* when the target Advertisement no longer exists); a reconcile whose
\* Advertisement write failed writes neither phase
C33_WriteOrdering ==
    [][\A r \in Reservations :
          /\ (rsv'[r].phase = ReservationPhaseReserved
              /\ rsv[r].phase # ReservationPhaseReserved)
             => (inc[r] >= 1 /\ w[r].pc = "status" /\ w[r].msg = MsgLocked)
          /\ (rsv'[r].phase = ReservationPhaseReleased
              /\ rsv[r].phase # ReservationPhaseReleased)
             => (/\ w[r].pc = "status" /\ w[r].msg = MsgReleased
                 /\ (dec[r] >= 1 \/ ~ClusterFound(rsv[r].target)))
          /\ (w[r].pc = "lockWrite" /\ inc'[r] = inc[r])
             => (w'[r].pc \in {"lockWrite", "lockRead", "idle"}
                 /\ rsv'[r].phase = rsv[r].phase)
          /\ (w[r].pc = "relWrite" /\ dec'[r] = dec[r])
             => (w'[r].pc \in {"relWrite", "idle"}
                 /\ rsv'[r].phase = rsv[r].phase)]_vars

\* C33 witness: the release write of an expired Reservation is about to fail,
\* the Advertisement having changed since it was read, and the phase is still
\* Reserved
C33_Witness ==
    \E r \in Reservations :
        /\ w[r].pc = "relWrite" /\ ~w[r].clCur
        /\ ~w[r].obj.deleting
        /\ rsv[r].phase = ReservationPhaseReserved
        /\ inc[r] = 1 /\ dec[r] = 0

\* C34: a reconcile of an Advertisement changes only its status and its
\* available field: the spec write leaves reserved, allocatable, allocated and
\* the timestamp as they are stored and as the reconcile read them, the status
\* write leaves the resources alone, no other Advertisement is touched, and the
\* available written is a fixed point of the recomputation
C34_FreshnessFrame ==
    [][\A c \in Clusters :
          /\ (aw[c].pc = "specWrite" /\ aw'[c].pc = "statusWrite")
             => (/\ adv'[c].res = [adv[c].res EXCEPT !.available = adv'[c].res.available]
                 /\ adv'[c].res # adv[c].res =>
                       /\ adv'[c].res = [aw[c].cl EXCEPT !.available = adv'[c].res.available]
                       /\ UpdateAvailableResources(adv'[c].res) = adv'[c].res
                 /\ [adv'[c] EXCEPT !.res = adv[c].res] = adv[c]
                 /\ \A d \in Clusters \ {c} : adv'[d] = adv[d]
                 /\ age' = age)
          /\ (aw[c].pc = "statusWrite" /\ aw'[c].pc = "idle")
             => (/\ adv'[c].res = adv[c].res
                 /\ \A d \in Clusters \ {c} : adv'[d] = adv[d]
                 /\ age' = age)]_vars

\* C34 witness: the agent reported 8 CPU / 8 Gi allocated on an Advertisement
\* with 2 CPU / 4 Gi reserved whose available still says 8 CPU / 16 Gi; the
\* reconcile has read it and its spec write, about to be accepted, carries
\* available 0 CPU / 8 Gi
C34_Witness ==
    /\ aw["A"].pc = "specWrite" /\ aw["A"].cur
    /\ adv["A"].res.allocated = Q(8, 8)
    /\ adv["A"].res.hasReserved /\ adv["A"].res.reserved = Q(2, 4)
    /\ adv["A"].res.available = Q(8, 16)
    /\ aw["A"].cl.available = Q(0, 8)

\* C35: no Reservation acquires capacity of, or reaches phase Reserved on, the
\* cluster named by its own requesterID or an Advertisement whose status active
\* is false at the time of the acquisition, also when the caller supplied
\* targetClusterID
C35_NoSelfNoInactive ==
    [][\A r \in Reservations :
          /\ inc'[r] > inc[r]
             => (/\ w[r].obj.target # w[r].obj.requesterID
                 /\ adv[w[r].obj.target].active)
          /\ (rsv'[r].phase = ReservationPhaseReserved
              /\ rsv[r].phase # ReservationPhaseReserved)
             => rsv'[r].target # rsv'[r].requesterID]_vars

\* C36: if a Reservation submitted without targetClusterID ends in phase Failed
\* with the insufficient-resources outcome, then at the moment of that failure
\* no active Advertisement other than the requester's own could satisfy the
\* request
C36_NoSpuriousFailure ==
    [][\A r \in Reservations :
          (/\ rsv'[r].phase = ReservationPhaseFailed
           /\ rsv[r].phase # ReservationPhaseFailed
           /\ rsv'[r].msg = MsgInsufficient)
          => \A i \in 1..Len(AdvList) :
                ~Survives(AdvList[i], rsv[r].requesterID, rsv[r].req)]_vars

\* C37: the priority never changes the outcome of the selection: two runs on
\* the same list with the same requesterID and request return the same
\* Advertisement whatever their priorities, and a run returns an Advertisement
\* whenever at least one survives the three filters
C37_PriorityIrrelevant ==
    /\ \A r1, r2 \in Reservations :
          (/\ SelectionDone(r1) /\ SelectionDone(r2)
           /\ Len(w[r1].seen) > 0
           /\ w[r1].seen = w[r2].seen
           /\ w[r1].obj.requesterID = w[r2].obj.requesterID
           /\ w[r1].obj.req = w[r2].obj.req)
          => (w[r1].pc = w[r2].pc /\ w[r1].obj.target = w[r2].obj.target)
    /\ \A r \in Reservations :
          (/\ SelectionDone(r)
           /\ \E i \in 1..Len(w[r].seen) :
                 Survives(w[r].seen[i], w[r].obj.requesterID, w[r].obj.req))
          => w[r].pc = "bind"

\* C38: a Reservation created without spec.duration never gets an expiresAt and
\* is never released by the broker on its own: a release of it is made or under
\* way only when it is being deleted or when it is Active with
\* RequesterReleased set, and until then it is Reserved or Active with its
\* requestedResources counted in the target's reserved
C38_NoDurationNoExpiry ==
    \A r \in Reservations :
        (rsv[r].exists /\ ~rsv[r].hasDuration) =>
            /\ ~rsv[r].expiresSet /\ rsv[r].expiresAt = NoTime
            /\ ~pastExpiry[r]
            /\ (w[r].pc \in {"relList", "relWrite"} \/ dec[r] > 0
                 \/ rsv[r].phase = ReservationPhaseReleased)
               => \/ rsv[r].deleting
                  \/ /\ rsv[r].phase \in {ReservationPhaseActive, ReservationPhaseReleased}
                     /\ rsv[r].condActive /\ rsv[r].condReleased
            /\ (rsv[r].phase \in Holding /\ dec[r] = 0)
               => ReservedOf(rsv[r].target) = rsv[r].req

\* C38 witness: a Reservation without duration has been activated and is at
\* rest, Active, with its request still counted in the reserved of its target
C38_Witness ==
    \E r \in Reservations :
        /\ rsv[r].exists /\ ~rsv[r].hasDuration /\ ~rsv[r].deleting
        /\ rsv[r].phase = ReservationPhaseActive /\ ~rsv[r].condReleased
        /\ AtRest(r)
        /\ ReservedOf(rsv[r].target) = rsv[r].req

\* C39: under fair scheduling of the reconciles every live Reservation with a
\* valid spec and phase empty or Pending eventually reaches phase Reserved or
\* Failed, also when other writers of the same Advertisement cause version
\* conflicts
C39_ProgressOutOfPending ==
    \A r \in Reservations :
        (/\ rsv[r].exists /\ ~rsv[r].deleting
         /\ validateReservationSpec(rsv[r])
         /\ rsv[r].phase \in {PhaseNew, ReservationPhasePending})
        ~> (rsv[r].phase \in {ReservationPhaseReserved, ReservationPhaseFailed})

\* C40: every Reservation that holds capacity carries the broker finalizer: a
\* stored Reservation with a committed increment that no committed decrement
\* has matched has the finalizer, and the acquisition closure only ever runs
\* on a Reservation to which the finalizer has been added
C40_HoldersCarryFinalizer ==
    \A r \in Reservations :
        /\ (rsv[r].exists /\ inc[r] > dec[r]) => rsv[r].finalizer
        /\ w[r].pc \in {"select", "bind", "lockRead", "lockWrite"}
              => w[r].obj.finalizer

\* C40 witness: a Reservation that holds capacity of A has been deleted by the
\* user and is kept by its finalizer, the release not yet written
C40_Witness ==
    \E r \in Reservations :
        /\ rsv[r].exists /\ rsv[r].deleting /\ rsv[r].finalizer
        /\ inc[r] = 1 /\ dec[r] = 0
        /\ ReservedOf("A") = rsv[r].req
====
